---- MODULE Spec2Model ----
(***************************************************************************)
(* Model of openlibrary/core/vendors.py: the Amazon and BetterWorldBooks    *)
(* metadata lookups, the normalisation of a vendor product into a metadata  *)
(* dict, and the cache wrapper around the Amazon lookup.                    *)
(*                                                                          *)
(* Python values are tagged records, so that None, strings, integers,       *)
(* lists and dicts are distinct values: None is [none |-> TRUE], a string   *)
(* is [str |-> <<symbols>>], an int is [int |-> n], a list is               *)
(* [list |-> <<...>>], a dict is [dict |-> f], and a raised exception is    *)
(* [exc |-> name].  A string is a sequence of symbols: one symbol per       *)
(* character wherever the code looks at characters (amounts, ISBNs,         *)
(* identifiers), one symbol for a literal the code only passes along.       *)
(***************************************************************************)
EXTENDS Integers, Sequences, FiniteSets, TLC

VARIABLES
    cache,      \* memcache: key -> "absent" or the stored value
    last,       \* what the last public call did and returned
    hist,       \* per cache key: how the last lookup of that key ended
    product,    \* the vendor product handed to _serialize_amazon_product
    data,       \* what _serialize_amazon_product returned for it
    response,   \* the fields the BetterWorldBooks regexes found
    bwb_data,   \* what _get_betterworldbooks_metadata returned for them
    search,     \* what lending.amazon_api does for one search
    search_data, \* what search_amazon returned for it
    bwb_cache,  \* memcache entries of cached_get_betterworldbooks_metadata
    bwb_last,   \* the last call of get_betterworldbooks_metadata
    call_pc,    \* where each concurrent caller of cached_get_amazon_metadata is
    call_result, \* the local variable result of each of these callers
    successes,  \* vendor fetches of these callers that brought metadata
    imp,        \* the frame of create_edition_from_amazon_metadata
    conn_token  \* the auth token of web.ctx.conn

cacheVars == <<cache, last, hist>>
normVars == <<product, data, response, bwb_data, search, search_data>>
bwbVars == <<bwb_cache, bwb_last>>
callVars == <<call_pc, call_result, successes>>
importVars == <<imp, conn_token>>
vars == <<cacheVars, normVars, bwbVars, callVars, importVars>>

\* ---------------------------------------------------------------- bounds
MaxAmountLen == 2
MaxResults == 2
NumCallers == 3
MaxImports == 2

\* ---------------------------------------------------------- Python values
None == [none |-> TRUE]
Str(s) == [str |-> s]
PyInt(n) == [int |-> n]
List(l) == [list |-> l]
Dict(f) == [dict |-> f]
Exc(e) == [exc |-> e]

IsNone(v) == v = None
IsStr(v) == DOMAIN v = {"str"}
IsDict(v) == DOMAIN v = {"dict"}
IsExc(v) == DOMAIN v = {"exc"}

\* Python truth value of None, a string, an int or a list
Truthy(v) ==
    /\ v # None
    /\ v # Str(<<>>)
    /\ v # PyInt(0)
    /\ v # List(<<>>)

NoKeys == [k \in {} |-> None]
Opt(cond, k, v) == IF cond THEN k :> v ELSE NoKeys
Has(d, k) == k \in DOMAIN d.dict
Get(d, k) == d.dict[k]

\* ------------------------------------------------------- digits and text
Digits == <<"0", "1", "2", "3", "4", "5", "6", "7", "8", "9">>
DigitSet == {Digits[i] : i \in 1..10}
DigitVal(c) == (CHOOSE i \in 1..10 : Digits[i] = c) - 1
DigitChr(n) == Digits[n + 1]

IsDigits(s) == Len(s) > 0 /\ \A i \in 1..Len(s) : s[i] \in DigitSet

RECURSIVE DigitsValue(_)
DigitsValue(s) ==
    IF s = <<>> THEN 0
    ELSE 10 * DigitsValue(SubSeq(s, 1, Len(s) - 1)) + DigitVal(s[Len(s)])

\* int(v): TypeError on None, ValueError on a string that is no number
CanInt(v) == IsStr(v) /\ IsDigits(v.str)
IntExc(v) == IF v = None THEN Exc("TypeError") ELSE Exc("ValueError")
IntOf(v) == DigitsValue(v.str)

RECURSIVE NatToStr(_)
NatToStr(n) ==
    IF n < 10 THEN <<DigitChr(n)>>
    ELSE NatToStr(n \div 10) \o <<DigitChr(n % 10)>>

\* the ',' option of format(): groups of three digits from the right
RECURSIVE Grouped(_)
Grouped(s) ==
    IF Len(s) <= 3 THEN s
    ELSE Grouped(SubSeq(s, 1, Len(s) - 3)) \o <<",">> \o SubSeq(s, Len(s) - 2, Len(s))

\* '{:00,.2f}'.format(cents / 100.)
FormatPrice(cents) ==
    Grouped(NatToStr(cents \div 100)) \o <<".">>
        \o <<DigitChr((cents % 100) \div 10), DigitChr(cents % 10)>>

\* Python 2 str < str: lexicographic on the symbols
RECURSIVE StrLess(_, _)
StrLess(a, b) ==
    IF b = <<>> THEN FALSE
    ELSE IF a = <<>> THEN TRUE
    ELSE IF a[1] = b[1] THEN StrLess(Tail(a), Tail(b))
    ELSE IF a[1] \in DigitSet /\ b[1] \in DigitSet THEN DigitVal(a[1]) < DigitVal(b[1])
    ELSE a[1] = "." \* '.' sorts before every digit

QltUsed == Str(<<"used">>)
QltNew == Str(<<"new">>)

\* ------------------------------------------- openlibrary.utils.isbn
\* weighted sum of the first n digits of s, weight w(i) for position i
RECURSIVE WeightedSum10(_, _)
WeightedSum10(s, n) ==
    IF n = 0 THEN 0
    ELSE WeightedSum10(s, n - 1) + (11 - n) * DigitVal(s[n])

RECURSIVE WeightedSum13(_, _)
WeightedSum13(s, n) ==
    IF n = 0 THEN 0
    ELSE WeightedSum13(s, n - 1) + (IF n % 2 = 1 THEN 1 ELSE 3) * DigitVal(s[n])

check_digit_10(s) ==
    LET r == 11 - (WeightedSum10(s, 9) % 11)
    IN  IF r = 10 THEN "X" ELSE IF r = 11 THEN "0" ELSE DigitChr(r)

check_digit_13(s) ==
    LET r == 10 - (WeightedSum13(s, 12) % 10)
    IN  IF r = 10 THEN "0" ELSE DigitChr(r)

isbn_10_to_isbn_13(s) ==
    LET body == <<"9", "7", "8">> \o SubSeq(s, 1, 9)
    IN  body \o <<check_digit_13(body)>>

isbn_13_to_isbn_10(s) ==
    LET body == SubSeq(s, 4, 12)
    IN  body \o <<check_digit_10(body)>>

\* ------------------------------------------------ _serialize_amazon_product
\* variant: the amounts are compared as the strings they are
SelectPrice_AsStrings(used, new) ==
    IF Truthy(used) /\ Truthy(new)
    THEN IF StrLess(used.str, new.str) THEN <<used, QltUsed>> ELSE <<new, QltNew>>
    ELSE IF Truthy(used) \/ Truthy(new)
    THEN IF Truthy(used) THEN <<used, QltUsed>> ELSE <<new, QltNew>>
    ELSE <<None, None>>

\* variant: <= in place of <
SelectPrice_LessEq(used, new) ==
    IF Truthy(used) /\ Truthy(new)
    THEN IF IntOf(used) <= IntOf(new) THEN <<used, QltUsed>> ELSE <<new, QltNew>>
    ELSE IF Truthy(used) \/ Truthy(new)
    THEN IF Truthy(used) THEN <<used, QltUsed>> ELSE <<new, QltNew>>
    ELSE <<None, None>>

\* (price, qlt) chosen from the lowest used and new amounts
SelectPrice(used, new) ==
    IF Truthy(used) /\ Truthy(new)
    THEN IF IntOf(used) < IntOf(new) THEN <<used, QltUsed>> ELSE <<new, QltNew>>
    ELSE IF Truthy(used) \/ Truthy(new)
    THEN IF Truthy(used) THEN <<used, QltUsed>> ELSE <<new, QltNew>>
    ELSE <<None, None>>

\* strftime('%b %d, %Y') for year > 1900, else str(year)
MonthNames == <<"Jan", "Feb", "Mar", "Apr", "May", "Jun",
                "Jul", "Aug", "Sep", "Oct", "Nov", "Dec">>
PublishDate(d) ==
    IF d.year > 1900
    THEN Str(<<MonthNames[d.month], " ">>
             \o (IF d.day < 10 THEN <<"0">> ELSE <<>>) \o NatToStr(d.day)
             \o <<",", " ">> \o NatToStr(d.year))
    ELSE Str(NatToStr(d.year))

\* str.lower() on the binding names the vendor uses
Lower(v) ==
    Str([i \in 1..Len(v.str) |->
            CASE v.str[i] = "Paperback" -> "paperback"
              [] v.str[i] = "Hardcover" -> "hardcover"
              [] OTHER -> v.str[i]])

OfferSummary(p) ==
    [total_new |-> PyInt(IntOf(p.total_new)),
     total_used |-> PyInt(IntOf(p.total_used)),
     total_collectible |-> PyInt(IntOf(p.total_collectible))]
    @@ Opt(Truthy(p.new), "lowest_new", PyInt(IntOf(p.new)))
    @@ Opt(Truthy(p.used), "lowest_used", PyInt(IntOf(p.used)))
    @@ Opt(Truthy(p.collectible), "lowest_collectible", PyInt(IntOf(p.collectible)))
    @@ Opt(Truthy(p.total_offers), "amazon_offers", PyInt(IntOf(p.total_offers)))

\* variant: an ISBN-10 is derived from every 13-digit ISBN
IsbnKeys_NoPrefixTest(isbn) ==
    IF ~Truthy(isbn) THEN NoKeys
    ELSE IF Len(isbn.str) = 10
    THEN [isbn_10 |-> List(<<isbn>>),
          isbn_13 |-> List(<<Str(isbn_10_to_isbn_13(isbn.str))>>)]
    ELSE IF Len(isbn.str) = 13
    THEN [isbn_13 |-> List(<<isbn>>),
          isbn_10 |-> List(<<Str(isbn_13_to_isbn_10(isbn.str))>>)]
    ELSE NoKeys

\* variant: isbn_10 is set to None when there is no ISBN-10 form
IsbnKeys_NoneIsbn10(isbn) ==
    IF ~Truthy(isbn) THEN NoKeys
    ELSE IF Len(isbn.str) = 10
    THEN [isbn_10 |-> List(<<isbn>>),
          isbn_13 |-> List(<<Str(isbn_10_to_isbn_13(isbn.str))>>)]
    ELSE IF Len(isbn.str) = 13
    THEN [isbn_13 |-> List(<<isbn>>),
          isbn_10 |-> IF SubSeq(isbn.str, 1, 3) = <<"9", "7", "8">>
                      THEN List(<<Str(isbn_13_to_isbn_10(isbn.str))>>)
                      ELSE None]
    ELSE NoKeys

IsbnKeys(isbn) ==
    IF ~Truthy(isbn) THEN NoKeys
    ELSE IF Len(isbn.str) = 10
    THEN [isbn_10 |-> List(<<isbn>>),
          isbn_13 |-> List(<<Str(isbn_10_to_isbn_13(isbn.str))>>)]
    ELSE IF Len(isbn.str) = 13
    THEN [isbn_13 |-> List(<<isbn>>)]
         @@ Opt(SubSeq(isbn.str, 1, 3) = <<"9", "7", "8">>,
                "isbn_10", List(<<Str(isbn_13_to_isbn_10(isbn.str))>>))
    ELSE NoKeys

\* the first int() of the function that raises, or None
SerializeRaises(p) ==
    LET both == Truthy(p.used) /\ Truthy(p.new)
        bad(v) == ~CanInt(v)
    IN  IF both /\ bad(p.used) THEN IntExc(p.used)
        ELSE IF both /\ bad(p.new) THEN IntExc(p.new)
        ELSE IF Truthy(SelectPrice(p.used, p.new)[1])
                /\ bad(SelectPrice(p.used, p.new)[1])
        THEN IntExc(SelectPrice(p.used, p.new)[1])
        ELSE IF ~p.offer_summary THEN None
        ELSE IF bad(p.total_new) THEN IntExc(p.total_new)
        ELSE IF bad(p.total_used) THEN IntExc(p.total_used)
        ELSE IF bad(p.total_collectible) THEN IntExc(p.total_collectible)
        ELSE IF Truthy(p.new) /\ bad(p.new) THEN IntExc(p.new)
        ELSE IF Truthy(p.used) /\ bad(p.used) THEN IntExc(p.used)
        ELSE IF Truthy(p.collectible) /\ bad(p.collectible) THEN IntExc(p.collectible)
        ELSE IF Truthy(p.total_offers) /\ bad(p.total_offers) THEN IntExc(p.total_offers)
        ELSE None

_serialize_amazon_product(p) ==
    LET sel == SelectPrice(p.used, p.new)
        qlt == sel[2]
        price == IF Truthy(sel[1]) THEN Str(FormatPrice(IntOf(sel[1]))) ELSE sel[1]
        price_fmt == IF Truthy(sel[1]) /\ Truthy(qlt)
                     THEN Str(<<"$">> \o price.str \o <<" ", "(">> \o qlt.str \o <<")">>)
                     ELSE None
    IN  IF SerializeRaises(p) # None THEN SerializeRaises(p)
        ELSE Dict(
            [url |-> Str(<<"https://www.amazon.com/dp/">> \o p.asin.str
                         \o <<"/?tag=", "affiliate_id">>),
             price |-> price_fmt,
             price_amt |-> price,
             qlt |-> qlt,
             title |-> p.title,
             authors |-> List([i \in 1..Len(p.authors) |-> Dict([name |-> p.authors[i]])]),
             source_records |-> List(<<Str(<<"amazon:">> \o p.asin.str)>>),
             number_of_pages |-> p.pages,
             languages |-> List(p.languages),
             cover |-> p.large_image_url,
             product_group |-> p.product_group]
            @@ Opt(p.offer_summary, "offer_summary", Dict(OfferSummary(p)))
            @@ Opt(Truthy(p.publication_date), "publish_date",
                   PublishDate(p.publication_date))
            @@ Opt(Truthy(p.binding), "physical_format", Lower(p.binding))
            @@ Opt(Truthy(p.edition), "edition", p.edition)
            @@ Opt(Truthy(p.publisher), "publishers", List(<<p.publisher>>))
            @@ IsbnKeys(p.isbn))

\* -------------------------------------------- _get_betterworldbooks_metadata
First(l) == l.list[1]

_get_betterworldbooks_metadata(isbn, r) ==
    IF r.http = "URLError" THEN Exc("URLError")
    ELSE IF r.http = "HTTPError"
    THEN \* e.read() raises no JSONDecodeError, so simplejson.loads decides
         IF r.json THEN Dict([error |-> Str(<<"bwb error">>)])
         ELSE Exc("JSONDecodeError")
    ELSE
    LET used_in == Truthy(r.used_qty) /\ Truthy(First(r.used_qty))
                      /\ First(r.used_qty) # Str(<<"0">>)
        new_in == Truthy(r.new_qty) /\ Truthy(First(r.new_qty))
                      /\ First(r.new_qty) # Str(<<"0">>)
        price1 == IF used_in
                  THEN (IF Truthy(r.used_price) THEN First(r.used_price) ELSE Str(<<>>))
                  ELSE None
        qlt1 == IF used_in THEN QltUsed ELSE None
        _price == IF Truthy(r.used_price) THEN First(r.used_price) ELSE None
        lower == new_in /\ Truthy(price1) /\ Truthy(_price)
                     /\ StrLess(_price.str, price1.str)
        price == IF lower THEN _price ELSE price1
        qlt == IF lower THEN QltNew ELSE qlt1
        price_fmt == IF Truthy(price) /\ Truthy(qlt)
                     THEN Str(<<"$">> \o price.str \o <<" ", "(">> \o qlt.str \o <<")">>)
                     ELSE None
    IN  Dict([url |-> Str(<<"http://www.anrdoezrs.net/links/", "affiliate_id",
                           "/type/dlg/http://www.betterworldbooks.com/-id-">>
                         \o isbn.str \o <<".aspx">>),
              price |-> price_fmt,
              price_amt |-> price,
              qlt |-> qlt])

\* ------------------------------------------------------------ input sets
AmountDigits == {"0", "1", "9"}
RECURSIVE DigitStrings(_)
DigitStrings(n) ==
    IF n = 0 THEN {<<>>}
    ELSE LET shorter == DigitStrings(n - 1)
         IN  shorter \cup {Append(s, c) : s \in {t \in shorter : Len(t) = n - 1},
                                          c \in AmountDigits}
AmountTexts ==
    {None} \cup {Str(s) : s \in DigitStrings(MaxAmountLen) \ {<<>>}}
           \cup {Str(<<"1", "2", "3", "4", "5", "6">>)}

Pending == [pending |-> TRUE]

\* what _safe_get_element(_text) finds under OfferSummary and Offers
NoOffers ==
    [offer_summary |-> FALSE, used |-> None, new |-> None, collectible |-> None,
     total_new |-> None, total_used |-> None, total_collectible |-> None,
     total_offers |-> None]
Offers ==
    {NoOffers} \cup
    [offer_summary : {TRUE}, used : AmountTexts, new : AmountTexts,
     collectible : {None, Str(<<"7">>)},
     total_new : {Str(<<"0">>), Str(<<"1">>)},
     total_used : {Str(<<"0">>), Str(<<"2">>)},
     total_collectible : {None, Str(<<"0">>)},
     total_offers : {Str(<<"1">>)}]
SomeOffers ==
    {NoOffers,
     [offer_summary |-> TRUE, used |-> Str(<<"9", "9">>), new |-> None,
      collectible |-> None, total_new |-> Str(<<"0">>), total_used |-> Str(<<"2">>),
      total_collectible |-> Str(<<"0">>), total_offers |-> None]}

Isbns ==
    {None,
     Str(<<"0", "1", "4", "0", "3", "2", "8", "7", "2", "6">>),
     Str(<<"9", "7", "8", "0", "1", "4", "0", "3", "2", "8", "7", "2", "1">>),
     Str(<<"9", "7", "9", "1", "2", "3", "4", "5", "6", "7", "8", "9", "6">>),
     Str(<<"1", "2", "3", "4", "5">>)}
Biblios ==
    [asin : {Str(<<"B", "0", "1">>)},
     title : {Str(<<"Foo">>)},
     authors : {<<Str(<<"Ann Author">>)>>},
     languages : {<<Str(<<"english">>)>>},
     pages : {None, PyInt(120)},
     large_image_url : {None, Str(<<"http://img/1.jpg">>)},
     product_group : {None, Str(<<"Book">>), Str(<<"DVD">>)},
     publication_date : {None, [year |-> 1899, month |-> 1, day |-> 1],
                         [year |-> 2001, month |-> 2, day |-> 3]},
     binding : {None, Str(<<"Paperback">>)},
     edition : {None},
     publisher : {None, Str(<<"Puffin">>)},
     isbn : Isbns]
Biblio0 ==
    [asin |-> Str(<<"B", "0", "1">>), title |-> Str(<<"Foo">>),
     authors |-> <<Str(<<"Ann Author">>)>>, languages |-> <<Str(<<"english">>)>>,
     pages |-> PyInt(120), large_image_url |-> Str(<<"http://img/1.jpg">>),
     product_group |-> Str(<<"Book">>),
     publication_date |-> [year |-> 2001, month |-> 2, day |-> 3],
     binding |-> Str(<<"Paperback">>), edition |-> Str(<<"1st">>),
     publisher |-> Str(<<"Puffin">>),
     isbn |-> Str(<<"0", "1", "4", "0", "3", "2", "8", "7", "2", "6">>)]
Products ==
    {o @@ Biblio0 : o \in Offers} \cup {o @@ b : o \in SomeOffers, b \in Biblios}

Matches(texts) == {List(<<>>)} \cup {List(<<Str(t)>>) : t \in texts}
Responses ==
    [http : {"URLError"}, json : {FALSE}, used_qty : {List(<<>>)}, new_qty : {List(<<>>)},
     used_price : {List(<<>>)}, new_price : {List(<<>>)}]
    \cup
    [http : {"HTTPError"}, json : BOOLEAN, used_qty : {List(<<>>)}, new_qty : {List(<<>>)},
     used_price : {List(<<>>)}, new_price : {List(<<>>)}]
    \cup
    [http : {"ok"}, json : {FALSE},
     used_qty : Matches({<<"0">>, <<"3">>}),
     new_qty : Matches({<<"0">>, <<"1">>}),
     used_price : Matches({<<"3", ".", "4", "8">>, <<"1", "0", ".", "0", "0">>}),
     new_price : Matches({<<"2", ".", "9", "9">>, <<"1", "0", ".", "0", "0">>})]
Response0 == CHOOSE r \in Responses : r.http = "URLError"
Product0 == NoOffers @@ Biblio0
BwbIsbn == Str(<<"0", "1", "4", "0", "3", "2", "8", "7", "2", "6">>)

\* ---------------------------------------------------- identifiers and keys
IsbnPlain == <<"0", "1", "4", "0", "3", "2", "8", "7", "2", "6">>
IsbnHyphen == <<"0", "-", "1", "4", "-", "0", "3", "2", "8", "7", "2", "-", "6">>
IsbnShort == <<"0", "1", "4", "0", "3">>
Asin == <<"B", "0", "1">>

\* the (id_, id_type) pairs the callers pass
Lookups ==
    {<<Str(i), "isbn">> : i \in {IsbnPlain, IsbnHyphen, IsbnShort, <<>>}}
        \cup {<<Str(Asin), "asin">>}

RECURSIVE Without(_, _)
Without(s, cs) ==
    IF s = <<>> THEN <<>>
    ELSE IF s[1] \in cs THEN Without(Tail(s), cs)
    ELSE <<s[1]>> \o Without(Tail(s), cs)

\* openlibrary.utils.isbn.normalize_isbn: drops spaces and hyphens;
\* FormatError on an identifier that is no ISBN-10 or ISBN-13
normalize_isbn(id_) ==
    LET s == Without(id_.str, {" ", "-"})
        ok == /\ Len(s) \in {10, 13}
              /\ \A i \in 1..Len(s) :
                    s[i] \in DigitSet \/ (i = Len(s) /\ s[i] = "X")
    IN  IF ok THEN Str(s) ELSE Exc("FormatError")

\* ------------------------------------------------------ the vendor client
\* what lending.amazon_api is and what its lookup() does for one call
ProductNoPrice == NoOffers @@ Biblio0
ProductPriced ==
    [offer_summary |-> TRUE, used |-> Str(<<"9", "9">>), new |-> Str(<<"1", "0", "0">>),
     collectible |-> None, total_new |-> Str(<<"1">>), total_used |-> Str(<<"2">>),
     total_collectible |-> Str(<<"0">>), total_offers |-> Str(<<"1">>)] @@ Biblio0
ProductBroken ==
    [offer_summary |-> TRUE, used |-> None, new |-> None,
     collectible |-> None, total_new |-> Str(<<"0">>), total_used |-> Str(<<"0">>),
     total_collectible |-> None, total_offers |-> None] @@ Biblio0

VendorOutcomes ==
    {[kind |-> k, products |-> <<>>] :
        k \in {"unconfigured", "throttled", "notfound"}}
    \cup {[kind |-> "product", products |-> <<p>>] : p \in {ProductNoPrice, ProductBroken}}
    \cup {[kind |-> "list", products |-> <<ProductNoPrice, ProductPriced>>]}

\* --------------------------------------------------- _get_amazon_metadata
_get_amazon_metadata(id_, id_type, o) ==
    LET item == IF id_type = "isbn" THEN normalize_isbn(id_) ELSE id_
    IN  IF IsExc(item) THEN item
        ELSE IF o.kind \notin {"product", "list"} THEN None
        ELSE _serialize_amazon_product(o.products[1])

\* ----------------------------------------------------------- search_amazon
\* one search: whether lending.amazon_api is configured, whether search()
\* itself raises, the products the iteration yields and how it ends
SearchProducts == {ProductNoPrice, ProductPriced, ProductBroken}
SearchOutcomes ==
    [configured : {FALSE}, call : {"ok"}, products : {<<>>}, end : {"stop"}]
    \cup [configured : {TRUE}, call : {"HTTPError"}, products : {<<>>}, end : {"stop"}]
    \cup [configured : {TRUE}, call : {"ok"},
          products : UNION {[1..n -> SearchProducts] : n \in 0..MaxResults},
          end : {"stop", "SearchException", "HTTPError"}]
Search0 == [configured |-> FALSE, call |-> "ok", products |-> <<>>, end |-> "stop"]

\* the results the loop has appended after n products, or the exception
\* that _serialize_amazon_product raised on the way
RECURSIVE Appended(_, _)
Appended(products, n) ==
    IF n = 0 THEN List(<<>>)
    ELSE LET before == Appended(products, n - 1)
             entry == _serialize_amazon_product(products[n])
         IN  IF IsExc(before) THEN before
             ELSE IF IsExc(entry) THEN entry
             ELSE List(Append(before.list, entry))

search_amazon(o) ==
    IF ~o.configured THEN Exc("AttributeError")
    ELSE IF o.call # "ok" THEN Exc(o.call)
    ELSE LET results == Appended(o.products, Len(o.products))
         IN  IF IsExc(results) THEN results
             ELSE IF o.end = "SearchException"
             THEN Dict([error |-> Str(<<"no results">>)])
             ELSE IF o.end # "stop" THEN Exc(o.end)
             ELSE Dict([results |-> results])

\* ------------------------------------------------- cache.memcache_memoize
Absent == [absent |-> TRUE]
Stored(v) == [value |-> v]

\* the memoized function f: what f(*args) does for each vendor answer
MemoizedFunction ==
    [key \in Lookups, o \in VendorOutcomes |-> _get_amazon_metadata(key[1], key[2], o)]

\* memoized.update(*args): calls f and stores what it returned
memoize_update(c, key, o) ==
    LET v == MemoizedFunction[key, o]
    IN  [value |-> v,
         cache |-> IF IsExc(v) THEN c ELSE [c EXCEPT ![key] = Stored(v)],
         fetched |-> <<o.kind>>]

\* memoized(*args): the stored value, or update() when there is none
memoize_call(c, key, o) ==
    IF c[key] = Absent THEN memoize_update(c, key, o)
    ELSE [value |-> c[key].value, cache |-> c, fetched |-> <<>>]

\* ---------------------------------------------- cached_get_amazon_metadata
\* variant: the stored value is returned as it is, None included
cached_get_amazon_metadata_NoRetry(c, key, o1, o2) ==
    memoize_call(c, key, o1)

\* variant: the test of the stored value is inverted
cached_get_amazon_metadata_Inverted(c, key, o1, o2) ==
    LET first == memoize_call(c, key, o1)
        again == memoize_update(first.cache, key, o2)
    IN  IF ~IsExc(first.value) /\ first.value # None
        THEN [again EXCEPT !.fetched = first.fetched \o again.fetched]
        ELSE first

\* variant: the value is fetched with update() without asking the cache
cached_get_amazon_metadata_UpdateFirst(c, key, o1, o2) ==
    LET first == memoize_update(c, key, o1)
        again == memoize_update(first.cache, key, o2)
    IN  IF first.value = None
        THEN [again EXCEPT !.fetched = first.fetched \o again.fetched]
        ELSE first

cached_get_amazon_metadata(c, key, o1, o2) ==
    LET first == memoize_call(c, key, o1)
        again == memoize_update(first.cache, key, o2)
    IN  IF first.value = None
        THEN [again EXCEPT !.fetched = first.fetched \o again.fetched]
        ELSE first

\* ----------------------------------------------------- get_amazon_metadata
\* variant: no try/except around the cached lookup
get_amazon_metadata_NoCatch(c, key, o1, o2) ==
    IF ~Truthy(key[1])
    THEN [called |-> FALSE, value |-> None, cache |-> c, fetched |-> <<>>,
          raised |-> FALSE]
    ELSE LET r == cached_get_amazon_metadata(c, key, o1, o2)
         IN  [called |-> TRUE, value |-> r.value,
              cache |-> r.cache, fetched |-> r.fetched,
              raised |-> IsExc(r.value)]

get_amazon_metadata(c, key, o1, o2) ==
    IF ~Truthy(key[1])
    THEN [called |-> FALSE, value |-> None, cache |-> c, fetched |-> <<>>,
          raised |-> FALSE]
    ELSE LET r == cached_get_amazon_metadata(c, key, o1, o2)
         IN  [called |-> TRUE,
              value |-> IF IsExc(r.value) THEN None ELSE r.value,
              cache |-> r.cache, fetched |-> r.fetched,
              raised |-> IsExc(r.value)]

\* ------------------------------------------------------------------ state
\* hist[key]: how the last cached lookup of the key ended: it returned None
\* ("none"), a dict ("value") or it raised ("raised"); "never" when there
\* was no lookup of the key since its entry last expired
SameIsbn(k1, k2) ==
    /\ k1[2] = "isbn" /\ k2[2] = "isbn"
    /\ ~IsExc(normalize_isbn(k1[1]))
    /\ normalize_isbn(k1[1]) = normalize_isbn(k2[1])

OtherForms == [k \in Lookups |-> {k2 \in Lookups \ {k} : SameIsbn(k2, k)}]
Unconfigured == [kind |-> "unconfigured", products |-> <<>>]
NoCall == [op |-> "none"]

\* the parts of the state a specification leaves alone
CacheIdle ==
    /\ cache = [k \in Lookups |-> Absent]
    /\ hist = [k \in Lookups |-> "never"]
    /\ last = NoCall
NormalizeIdle ==
    /\ product = Product0
    /\ data = Pending
    /\ response = Response0
    /\ bwb_data = Pending
    /\ search = Search0
    /\ search_data = Pending
BwbKeys == {BwbIsbn}
BwbIdle ==
    /\ bwb_cache = [k \in BwbKeys |-> Absent]
    /\ bwb_last = NoCall
Callers == 1..NumCallers
CallIdle ==
    /\ call_pc = [c \in Callers |-> "start"]
    /\ call_result = [c \in Callers |-> Pending]
    /\ successes = 0
ImportIdle ==
    /\ imp = NoCall
    /\ conn_token = <<>>

Init ==
    /\ cache = [k \in Lookups |-> Absent]
    /\ hist = [k \in Lookups |-> "never"]
    /\ last = NoCall
    /\ product = Product0
    /\ data = Pending
    /\ response = Response0
    /\ bwb_data = Pending
    /\ search = Search0
    /\ search_data = Pending
    /\ BwbIdle /\ CallIdle /\ ImportIdle

\* a caller runs get_amazon_metadata(id_, id_type); the vendor answers the
\* fetches the call makes with o1 and o2
GetAmazonMetadata(key, o1, o2) ==
    \E r \in {get_amazon_metadata(cache, key, o1, o2)} :
    LET n == Len(r.fetched)
    IN  /\ n < 2 => o2 = o1
        /\ n < 1 => o1 = Unconfigured
        /\ cache' = r.cache
        /\ last' = [op |-> "get_amazon_metadata", key |-> key, called |-> r.called,
                    value |-> r.value, raised |-> r.raised, nfetch |-> n,
                    notfound |-> n > 0 /\ r.fetched[n] = "notfound",
                    entry |-> cache[key], before |-> hist[key],
                    other_form |-> \E k \in OtherForms[key] : hist[k] = "value"]
        /\ hist' = IF ~r.called THEN hist
                   ELSE [hist EXCEPT ![key] =
                            IF r.raised THEN "raised"
                            ELSE IF r.value = None THEN "none" ELSE "value"]
        /\ UNCHANGED <<normVars, bwbVars, callVars, importVars>>

\* the TTL of the entry of a key passes: memcache drops it
Expire(key) ==
    /\ cache[key] # Absent
    /\ cache' = [cache EXCEPT ![key] = Absent]
    /\ hist' = [hist EXCEPT ![key] = "never"]
    /\ UNCHANGED <<last, normVars, bwbVars, callVars, importVars>>

Next ==
    \/ \E key \in Lookups, o1, o2 \in VendorOutcomes : GetAmazonMetadata(key, o1, o2)
    \/ \E key \in Lookups : Expire(key)

Spec == Init /\ [][Next]_vars

\* ------------------------------------------ the normalisers on their own
InitNormalize ==
    /\ cache = [k \in Lookups |-> Absent]
    /\ hist = [k \in Lookups |-> "never"]
    /\ last = NoCall
    /\ \/ product \in Products /\ response = Response0 /\ search = Search0
       \/ product = Product0 /\ response \in Responses /\ search = Search0
       \/ product = Product0 /\ response = Response0 /\ search \in SearchOutcomes
    /\ data = Pending
    /\ bwb_data = Pending
    /\ search_data = Pending
    /\ BwbIdle /\ CallIdle /\ ImportIdle

Serialize ==
    /\ data = Pending
    /\ data' = _serialize_amazon_product(product)
    /\ UNCHANGED <<cacheVars, product, response, bwb_data, search, search_data>>
    /\ UNCHANGED <<bwbVars, callVars, importVars>>

BetterWorldBooks ==
    /\ bwb_data = Pending
    /\ bwb_data' = _get_betterworldbooks_metadata(BwbIsbn, response)
    /\ UNCHANGED <<cacheVars, product, data, response, search, search_data>>
    /\ UNCHANGED <<bwbVars, callVars, importVars>>

SearchAmazon ==
    /\ search_data = Pending
    /\ search_data' = search_amazon(search)
    /\ UNCHANGED <<cacheVars, product, data, response, bwb_data, search>>
    /\ UNCHANGED <<bwbVars, callVars, importVars>>

NextNormalize == Serialize \/ BetterWorldBooks \/ SearchAmazon

SpecNormalize == InitNormalize /\ [][NextNormalize]_vars

\* ------------------------------------------ get_betterworldbooks_metadata
BwbInputs == {Str(IsbnPlain), Str(IsbnHyphen), Str(IsbnShort)}
BwbResponses ==
    {r \in Responses :
        \/ r.http # "ok"
        \/ /\ r.used_qty # List(<<>>)
           /\ r.used_price = List(<<Str(<<"3", ".", "4", "8">>)>>)
           /\ r.new_qty = List(<<>>)
           /\ r.new_price = List(<<>>)}

\* the public lookup: [value, raised, nfetch] with nfetch the HTTP requests
get_betterworldbooks_metadata(s, r) ==
    LET isbn == normalize_isbn(s)
    IN  IF IsExc(isbn) THEN [value |-> isbn, raised |-> TRUE, nfetch |-> 0]
        ELSE IF ~Truthy(isbn) THEN [value |-> None, raised |-> FALSE, nfetch |-> 0]
        ELSE LET v == _get_betterworldbooks_metadata(isbn, r)
             IN  [value |-> IF IsExc(v) THEN Dict(NoKeys) ELSE v,
                  raised |-> FALSE, nfetch |-> 1]

\* a lookup that brought the metadata of the book
BwbSucceeded(l) ==
    l # NoCall /\ ~l.raised /\ IsDict(l.value) /\ Has(l.value, "url")

GetBetterWorldBooks(s, r) ==
    \E out \in {get_betterworldbooks_metadata(s, r)} :
        /\ out.nfetch = 0 => r = Response0
        /\ bwb_last' = [isbn |-> s, value |-> out.value, raised |-> out.raised,
                        nfetch |-> out.nfetch, expired |-> FALSE,
                        repeat |-> /\ BwbSucceeded(bwb_last)
                                   /\ bwb_last.isbn = s
                                   /\ ~bwb_last.expired]
        /\ UNCHANGED <<bwb_cache, cacheVars, normVars, callVars, importVars>>

\* cached_get_betterworldbooks_metadata(isbn), called on its own
CachedGetBetterWorldBooks(isbn, r) ==
    /\ IF bwb_cache[isbn] # Absent
       THEN r = Response0 /\ UNCHANGED bwb_cache
       ELSE \E v \in {_get_betterworldbooks_metadata(isbn, r)} :
               bwb_cache' = IF IsExc(v) THEN bwb_cache
                            ELSE [bwb_cache EXCEPT ![isbn] = Stored(v)]
    /\ UNCHANGED <<bwb_last, cacheVars, normVars, callVars, importVars>>

\* half a day passes: memcache drops the entry
ExpireBwb(isbn) ==
    /\ bwb_cache[isbn] # Absent
    /\ bwb_cache' = [bwb_cache EXCEPT ![isbn] = Absent]
    /\ bwb_last' = IF bwb_last = NoCall THEN bwb_last
                   ELSE [bwb_last EXCEPT !.expired = TRUE]
    /\ UNCHANGED <<cacheVars, normVars, callVars, importVars>>

InitBwb == CacheIdle /\ NormalizeIdle /\ BwbIdle /\ CallIdle /\ ImportIdle

NextBwb ==
    \/ \E s \in BwbInputs, r \in BwbResponses : GetBetterWorldBooks(s, r)
    \/ \E isbn \in BwbKeys, r \in BwbResponses : CachedGetBetterWorldBooks(isbn, r)
    \/ \E isbn \in BwbKeys : ExpireBwb(isbn)

SpecBwb == InitBwb /\ [][NextBwb]_vars

\* ------------------------- concurrent callers of cached_get_amazon_metadata
\* every caller passes the same arguments; each of them is at "start",
\* inside memoized(*args) or memoized.update(*args) waiting for
\* _get_amazon_metadata, or has "returned" or "raised"
CallKey == <<Str(IsbnPlain), "isbn">>
InFlight == {c \in Callers : call_pc[c] \in {"memoized", "update"}}
Brought(v) == IF IsDict(v) THEN 1 ELSE 0

\* result = memoized(*args): a hit gives the stored value, a miss calls f
CallMemoized(c) ==
    /\ call_pc[c] = "start"
    /\ IF cache[CallKey] = Absent
       THEN /\ call_pc' = [call_pc EXCEPT ![c] = "memoized"]
            /\ UNCHANGED call_result
       ELSE /\ call_result' = [call_result EXCEPT ![c] = cache[CallKey].value]
            /\ call_pc' = [call_pc EXCEPT ![c] =
                    IF cache[CallKey].value = None THEN "update" ELSE "returned"]
    /\ UNCHANGED <<cache, last, hist, successes, normVars, bwbVars, importVars>>

\* f returns inside memoized(*args) or memoized.update(*args): the value is
\* stored; a None out of memoized(*args) sends the caller into update
FetchReturns(c, o) ==
    /\ c \in InFlight
    /\ \E v \in {MemoizedFunction[CallKey, o]} :
        /\ call_result' = [call_result EXCEPT ![c] = v]
        /\ cache' = IF IsExc(v) THEN cache ELSE [cache EXCEPT ![CallKey] = Stored(v)]
        /\ successes' = successes + Brought(v)
        /\ call_pc' = [call_pc EXCEPT ![c] =
                IF IsExc(v) THEN "raised"
                ELSE IF v = None /\ call_pc[c] = "memoized" THEN "update"
                ELSE "returned"]
    /\ UNCHANGED <<last, hist, normVars, bwbVars, importVars>>

InitConcurrent == CacheIdle /\ NormalizeIdle /\ BwbIdle /\ CallIdle /\ ImportIdle

NextConcurrent ==
    \/ \E c \in Callers : CallMemoized(c)
    \/ \E c \in Callers, o \in VendorOutcomes : FetchReturns(c, o)

SpecConcurrent == InitConcurrent /\ [][NextConcurrent]_vars

\* ------------------------------------ create_edition_from_amazon_metadata
\* accounts and the tokens of web.ctx.conn; '' is the token of no user
NoAccount == "no account"
CurrentUsers == {NoAccount, "alice", "bob"}
LoginCode(account) == <<"login code of", account>>
SessionToken(account) ==
    IF account = NoAccount THEN <<>> ELSE <<"session of", account>>

\* what get_amazon_metadata gives the import
BookMetadata == _serialize_amazon_product(ProductPriced)
DvdMetadata ==
    _serialize_amazon_product([ProductPriced EXCEPT !.product_group = Str(<<"DVD">>)])
ImportMetadata == {None, Dict(NoKeys), BookMetadata, DvdMetadata}
IsBook(md) ==
    /\ IsDict(md) /\ md # Dict(NoKeys)
    /\ Has(md, "product_group") /\ Get(md, "product_group") = Str(<<"Book">>)

\* what load() answers
PyBool(b) == [bool |-> b]
EditionKey == Str(<<"/books/OL1M">>)
LoadReplies ==
    {None, Dict([success |-> PyBool(FALSE)]),
     Dict([success |-> PyBool(TRUE), edition |-> Dict([key |-> EditionKey])])}
Succeeded(reply) ==
    IsDict(reply) /\ Has(reply, "success") /\ Get(reply, "success") = PyBool(TRUE)

\* the frame of one call; switched, changed and loads record what the call
\* did to the connection and how often it called load()
Frame(account, n, md) ==
    [pc |-> "idle", n |-> n, account |-> account, md |-> md, auth_token |-> <<>>,
     reply |-> None, result |-> None, switched |-> FALSE, changed |-> FALSE,
     loads |-> 0]

\* lines 202-203: the call starts; it is over at once without a book
CreateEdition(md) ==
    /\ imp.pc \in {"idle", "returned", "raised"}
    /\ imp.n < MaxImports
    /\ imp' = [Frame(imp.account, imp.n + 1, md) EXCEPT
                  !.pc = IF IsBook(md) THEN "save" ELSE "returned"]
    /\ UNCHANGED <<conn_token, cacheVars, normVars, bwbVars, callVars>>

\* lines 205-206: the token of the current user is saved
SaveToken(ok) ==
    /\ imp.pc = "save"
    /\ imp.account = NoAccount => ok
    /\ imp' = IF ~ok THEN [imp EXCEPT !.pc = "raised"]
              ELSE [imp EXCEPT !.pc = "find",
                               !.auth_token = IF imp.account = NoAccount THEN <<>>
                                              ELSE LoginCode(imp.account)]
    /\ UNCHANGED <<conn_token, cacheVars, normVars, bwbVars, callVars>>

\* line 210: accounts.find(username='ImportBot')
FindImportBot(ok) ==
    /\ imp.pc = "find"
    /\ imp' = [imp EXCEPT !.pc = IF ok THEN "switch" ELSE "except"]
    /\ UNCHANGED <<conn_token, cacheVars, normVars, bwbVars, callVars>>

\* line 211: set_auth_token(tmp_account.generate_login_code())
SwitchToken(ok) ==
    /\ imp.pc = "switch"
    /\ IF ok
       THEN /\ conn_token' = LoginCode("ImportBot")
            /\ imp' = [imp EXCEPT !.pc = "load", !.switched = TRUE, !.changed = TRUE]
       ELSE /\ imp' = [imp EXCEPT !.pc = "except"]
            /\ UNCHANGED conn_token
    /\ UNCHANGED <<cacheVars, normVars, bwbVars, callVars>>

\* lines 212-213: load(clean_amazon_metadata_for_load(md), account=tmp_account)
Load(reply) ==
    /\ imp.pc = "load"
    /\ imp' = IF IsExc(reply)
              THEN [imp EXCEPT !.pc = "except", !.loads = @ + 1]
              ELSE [imp EXCEPT !.pc = "restore", !.loads = @ + 1, !.reply = reply]
    /\ UNCHANGED <<conn_token, cacheVars, normVars, bwbVars, callVars>>

\* variant: the failure is raised again with ImportBot's token left in place
ImportExcept_NoRestore ==
    /\ imp.pc = "except"
    /\ imp' = [imp EXCEPT !.pc = "raised"]
    /\ UNCHANGED <<conn_token, cacheVars, normVars, bwbVars, callVars>>

\* lines 214-216: the except branch
ImportExcept ==
    /\ imp.pc = "except"
    /\ conn_token' = imp.auth_token
    /\ imp' = [imp EXCEPT !.pc = "raised", !.changed = TRUE]
    /\ UNCHANGED <<cacheVars, normVars, bwbVars, callVars>>

\* lines 218-222: the token goes back and the edition key is returned
Restore ==
    /\ imp.pc = "restore"
    /\ conn_token' = imp.auth_token
    /\ imp' = [imp EXCEPT !.pc = "returned", !.changed = TRUE,
                          !.result = IF Succeeded(imp.reply)
                                     THEN Get(Get(imp.reply, "edition"), "key")
                                     ELSE None]
    /\ UNCHANGED <<cacheVars, normVars, bwbVars, callVars>>

InitImport ==
    /\ CacheIdle /\ NormalizeIdle /\ BwbIdle /\ CallIdle
    /\ \E account \in CurrentUsers :
          /\ imp = Frame(account, 0, None)
          /\ conn_token = SessionToken(account)

NextImport ==
    \/ \E md \in ImportMetadata : CreateEdition(md)
    \/ \E ok \in BOOLEAN : SaveToken(ok)
    \/ \E ok \in BOOLEAN : FindImportBot(ok)
    \/ \E ok \in BOOLEAN : SwitchToken(ok)
    \/ \E reply \in LoadReplies \cup {Exc("Exception")} : Load(reply)
    \/ ImportExcept
    \/ Restore

SpecImport == InitImport /\ [][NextImport]_vars

\* ================================================================ claims
Called == last # NoCall /\ last.called
Entry(k) == cache[k]

\* C1: None is never served from the cache: when the last lookup of a key
\* ended with None (its fetch returned None) and the entry has not expired
\* since, the next call of cached_get_amazon_metadata with that key invokes
\* _get_amazon_metadata again, however often that happened before.
C1_NoneNeverServed ==
    (Called /\ last.before = "none") => last.nfetch >= 1

\* a call that followed a None lookup of its key, fetched and got None again
C1_Witness ==
    /\ Called /\ last.before = "none" /\ last.entry = Stored(None)
    /\ last.nfetch = 1 /\ last.value = None /\ ~last.raised

\* C2: a non-None fetch result is cached, a dict without a price included:
\* after a lookup of a key obtained a dict, every later call with that key
\* before the entry expires returns that same dict without a fetch.
C2_DictServedFromCache ==
    /\ \A k \in Lookups :
          hist[k] = "value" => Entry(k) # Absent /\ IsDict(Entry(k).value)
    /\ (Called /\ ~last.raised /\ last.value # None /\ hist[last.key] # "never")
          => Entry(last.key) = Stored(last.value)
    /\ (Called /\ last.before = "value")
          => /\ last.nfetch = 0
             /\ ~last.raised
             /\ IsDict(last.value)
             /\ last.entry = Stored(last.value)

\* a call served from the cache with the dict of a product without price
C2_Witness ==
    /\ Called /\ last.before = "value" /\ last.nfetch = 0
    /\ IsDict(last.value)
    /\ Get(last.value, "title") = Str(<<"Foo">>)
    /\ Get(last.value, "price") = None

\* a call step on the key of the call before it, nothing in between
NextCallSameKey ==
    /\ Called
    /\ hist[last.key] # "never"
    /\ last' # last
    /\ last'.called
    /\ last'.key = last.key

\* C3 as stated: two consecutive calls with one key and no expiry between
\* them invoke _get_amazon_metadata exactly once in total.
C3_IdempotenceAsStated ==
    [][NextCallSameKey => last.nfetch + last'.nfetch = 1]_vars

\* C3 amended: two consecutive calls with one key and no expiry between
\* them, the first of which found no entry and whose fetch returned a
\* non-None result, invoke _get_amazon_metadata exactly once in total.
C3_IdempotenceAfterSuccess ==
    [][(/\ NextCallSameKey
        /\ last.entry = Absent
        /\ last.nfetch = 1
        /\ ~last.raised
        /\ last.value # None) => last.nfetch + last'.nfetch = 1]_vars

\* the second of two such calls: a hit on the plain ISBN, no fetch
C3_Witness ==
    /\ Called /\ last.key = <<Str(IsbnPlain), "isbn">>
    /\ last.before = "value" /\ last.nfetch = 0
    /\ last.entry # Absent /\ last.value = last.entry.value

\* C4: get_amazon_metadata never propagates a failure: it returns a dict
\* or None, and None whenever the pipeline raised.
C4_NeverRaises ==
    last # NoCall =>
        /\ ~IsExc(last.value)
        /\ last.value = None \/ IsDict(last.value)
        /\ last.raised => last.value = None

\* a call whose pipeline raised after a fetch, answered with None
C4_Witness ==
    /\ Called /\ last.raised /\ last.nfetch >= 1 /\ last.value = None

\* C5 as stated: after the vendor answered "no such item" the entry of the
\* key holds a marker that is not None, and the next call with the key is
\* served from the cache.
C5_NotFoundCached ==
    [][/\ (last' # NoCall /\ last'.called /\ last'.notfound)
            => cache'[last'.key] # Absent /\ cache'[last'.key].value # None
       /\ (NextCallSameKey /\ last.notfound) => last'.nfetch = 0]_vars

\* C6 as stated: a call with an ISBN whose other form has a non-None entry
\* that has not expired uses that entry and makes no fetch.
C6_CanonicalKey ==
    (Called /\ last.other_form) => last.nfetch = 0

\* ---------------------------------------------- claims on the normalisers
Serialized == IsDict(data)
BothAmounts == Truthy(product.used) /\ Truthy(product.new)
UsedCents == IntOf(product.used)
NewCents == IntOf(product.new)

\* C7: when the used and the new amount are both present and differ as
\* numbers, _serialize_amazon_product chooses the smaller one with its tier
\* as qlt; the collectible amount is never the headline price.
C7_StrictSelection ==
    Serialized =>
        /\ (BothAmounts /\ UsedCents < NewCents)
              => /\ Get(data, "qlt") = QltUsed
                 /\ Get(data, "price_amt") = Str(FormatPrice(UsedCents))
        /\ (BothAmounts /\ NewCents < UsedCents)
              => /\ Get(data, "qlt") = QltNew
                 /\ Get(data, "price_amt") = Str(FormatPrice(NewCents))
        /\ Get(data, "qlt") \in {None, QltUsed, QltNew}
        /\ Get(data, "qlt") = QltUsed
              => Get(data, "price_amt") = Str(FormatPrice(UsedCents))
        /\ Get(data, "qlt") = QltNew
              => Get(data, "price_amt") = Str(FormatPrice(NewCents))

\* used 9 cents, new 10 cents, a collectible offer of 7 cents: used is chosen
C7_Witness ==
    /\ Serialized
    /\ product.used = Str(<<"9">>) /\ product.new = Str(<<"1", "0">>)
    /\ product.collectible = Str(<<"7">>)
    /\ Get(data, "qlt") = QltUsed
    /\ Get(data, "price_amt") = Str(<<"0", ".", "0", "9">>)

\* C8 as stated: equal used and new amounts give the 'used' tier.
C8_TieGivesUsed ==
    (Serialized /\ BothAmounts /\ UsedCents = NewCents)
        => Get(data, "qlt") = QltUsed

\* C8 amended: when the used and new amounts are both present and
\* numerically equal, the selector returns the 'new' tier (qlt = 'new').
C8_TieGivesNew ==
    (Serialized /\ BothAmounts /\ UsedCents = NewCents)
        => /\ Get(data, "qlt") = QltNew
           /\ Get(data, "price_amt") = Str(FormatPrice(NewCents))

\* used "09" and new "9": equal as numbers, new is chosen
C8_Witness ==
    /\ Serialized
    /\ product.used = Str(<<"0", "9">>) /\ product.new = Str(<<"9">>)
    /\ Get(data, "qlt") = QltNew

\* C9 as stated: for both vendors, a tier whose quantity is 0 is never the
\* tier of the headline price, whatever its price field holds.
C9_ZeroQuantityNeverSelected ==
    /\ Serialized =>
          /\ product.total_used = Str(<<"0">>) => Get(data, "qlt") # QltUsed
          /\ product.total_new = Str(<<"0">>) => Get(data, "qlt") # QltNew
    /\ (IsDict(bwb_data) /\ response.http = "ok") =>
          /\ response.used_qty = List(<<Str(<<"0">>)>>)
                => Get(bwb_data, "qlt") # QltUsed
          /\ response.new_qty = List(<<Str(<<"0">>)>>)
                => Get(bwb_data, "qlt") # QltNew

\* the keys _serialize_amazon_product sets in its dict literal
AlwaysKeys ==
    {"url", "price", "price_amt", "qlt", "title", "authors", "source_records",
     "number_of_pages", "languages", "cover", "product_group"}

\* C10 as stated: every key but title that is present is not None, and
\* without offers, page count or cover image the keys price, price_amt,
\* qlt, number_of_pages and cover are absent.
C10_AbsentOmitted ==
    Serialized =>
        /\ \A k \in DOMAIN data.dict \ {"title"} : Get(data, k) # None
        /\ ~(Truthy(product.used) \/ Truthy(product.new))
              => ~Has(data, "price") /\ ~Has(data, "price_amt") /\ ~Has(data, "qlt")
        /\ product.pages = None => ~Has(data, "number_of_pages")
        /\ product.large_image_url = None => ~Has(data, "cover")

\* C10 amended: the keys offer_summary, publish_date, physical_format,
\* edition, publishers, isbn_10 and isbn_13 are present only when the
\* vendor record has the attribute, and are then not None; the keys price,
\* price_amt, qlt, number_of_pages, cover and product_group are always
\* present, with the value None when the record has no offers, no page
\* count, no cover image or no product group.
C10_OnlyLaterKeysOmitted ==
    Serialized =>
        /\ AlwaysKeys \subseteq DOMAIN data.dict
        /\ \A k \in DOMAIN data.dict \ AlwaysKeys : Get(data, k) # None
        /\ Has(data, "offer_summary") <=> product.offer_summary
        /\ Has(data, "offer_summary") =>
              \A k \in DOMAIN Get(data, "offer_summary").dict :
                  Get(Get(data, "offer_summary"), k) # None
        /\ Has(data, "publish_date") <=> product.publication_date # None
        /\ Has(data, "physical_format") <=> product.binding # None
        /\ Has(data, "edition") <=> product.edition # None
        /\ Has(data, "publishers") <=> product.publisher # None
        /\ Has(data, "isbn_13") => product.isbn # None
        /\ Has(data, "isbn_10") => product.isbn # None
        /\ ~(Truthy(product.used) \/ Truthy(product.new))
              => /\ Get(data, "price") = None
                 /\ Get(data, "price_amt") = None
                 /\ Get(data, "qlt") = None
        /\ Get(data, "number_of_pages") = product.pages
        /\ Get(data, "cover") = product.large_image_url

\* a record without offers, pages, cover nor an ISBN-10 form
C10_Witness ==
    /\ Serialized
    /\ ~product.offer_summary /\ product.pages = None
    /\ product.large_image_url = None /\ product.publisher = None
    /\ product.isbn # None /\ Len(product.isbn.str) = 13
    /\ Has(data, "isbn_13") /\ ~Has(data, "isbn_10")
    /\ Get(data, "price") = None /\ Get(data, "cover") = None
    /\ ~Has(data, "offer_summary") /\ ~Has(data, "publishers")

\* C11: a vendor ISBN of length 10 gives isbn_10 = [isbn] and the derived
\* isbn_13; one of length 13 that starts with 978 gives isbn_13 = [isbn]
\* and the derived isbn_10; one of length 13 with another prefix gives
\* isbn_13 = [isbn] and no isbn_10 key.
Isbn978(s) == SubSeq(s, 1, 3) = <<"9", "7", "8">>
C11_IsbnDerivation ==
    (Serialized /\ product.isbn # None) =>
        LET isbn == product.isbn.str
        IN  /\ Len(isbn) = 10 =>
                /\ Get(data, "isbn_10") = List(<<Str(isbn)>>)
                /\ Get(data, "isbn_13") = List(<<Str(isbn_10_to_isbn_13(isbn))>>)
                /\ Len(First(Get(data, "isbn_13")).str) = 13
            /\ (Len(isbn) = 13 /\ Isbn978(isbn)) =>
                /\ Get(data, "isbn_13") = List(<<Str(isbn)>>)
                /\ Get(data, "isbn_10") = List(<<Str(isbn_13_to_isbn_10(isbn))>>)
                /\ Len(First(Get(data, "isbn_10")).str) = 10
            /\ (Len(isbn) = 13 /\ ~Isbn978(isbn)) =>
                /\ Get(data, "isbn_13") = List(<<Str(isbn)>>)
                /\ ~Has(data, "isbn_10")

\* the ISBN-13 979-... is kept and no ISBN-10 is derived from it
C11_Witness ==
    /\ Serialized /\ product.isbn # None
    /\ Len(product.isbn.str) = 13 /\ ~Isbn978(product.isbn.str)
    /\ Get(data, "isbn_13") = List(<<product.isbn>>)
    /\ ~Has(data, "isbn_10")

\* the amount the vendor reported for the tier that was chosen
ChosenAmount ==
    IF Get(data, "qlt") = QltUsed THEN product.used ELSE product.new

\* C12 as stated: whenever a price was chosen, price_amt is the unformatted
\* numeric amount the vendor reported for the chosen tier, and price is the
\* display string formatted from it.
C12_PriceAmtIsRaw ==
    (Serialized /\ Get(data, "qlt") # None) =>
        /\ Get(data, "price_amt") \in {ChosenAmount, PyInt(IntOf(ChosenAmount))}
        /\ Get(data, "price") =
              Str(<<"$">> \o FormatPrice(IntOf(ChosenAmount))
                  \o <<" ", "(">> \o Get(data, "qlt").str \o <<")">>)

\* the price of a BetterWorldBooks tier in cents, None when the tier has
\* no stock or no price
Cents(text) == DigitsValue(Without(text.str, {"."}))
InStock(qty, price) ==
    /\ qty # List(<<>>) /\ DigitsValue(First(qty).str) # 0
    /\ price # List(<<>>)

\* C17 as stated: with a tier present exactly when its quantity is not 0
\* and its price field is there, _get_betterworldbooks_metadata returns the
\* numerically smaller of the used and the new price with its tier when
\* both are present, and the price and tier of the only one present
\* otherwise.
C17_BwbAgreesWithSelector ==
    (IsDict(bwb_data) /\ response.http = "ok") =>
        LET used_in == InStock(response.used_qty, response.used_price)
            new_in == InStock(response.new_qty, response.new_price)
            used == First(response.used_price)
            new == First(response.new_price)
            answer == <<Get(bwb_data, "price_amt"), Get(bwb_data, "qlt")>>
        IN  /\ (used_in /\ new_in) =>
                    answer = IF Cents(used) < Cents(new)
                             THEN <<used, QltUsed>> ELSE <<new, QltNew>>
            /\ (used_in /\ ~new_in) => answer = <<used, QltUsed>>
            /\ (~used_in /\ new_in) => answer = <<new, QltNew>>
            /\ (~used_in /\ ~new_in) => answer = <<None, None>>

\* C18 as stated: one call of cached_get_amazon_metadata invokes
\* _get_amazon_metadata at most once, whatever the cache holds and whatever
\* the fetch returns.
C18_AtMostOneFetch ==
    Called => last.nfetch <= 1

\* C13 as stated: search_amazon never lets a failure out: it returns
\* {'results': [...]} with one normalised entry per vendor product in the
\* vendor's order, or {'error': 'no results'} when the vendor reports an
\* empty search.
C13_SearchNeverRaises ==
    search_data # Pending =>
        /\ ~IsExc(search_data)
        /\ \/ search_data = Dict([error |-> Str(<<"no results">>)])
           \/ /\ DOMAIN search_data.dict = {"results"}
              /\ Len(Get(search_data, "results").list) = Len(search.products)
              /\ \A i \in 1..Len(search.products) :
                    Get(search_data, "results").list[i]
                        = _serialize_amazon_product(search.products[i])

\* C15 as stated: the public BetterWorldBooks lookup goes through the cache:
\* a call that repeats the ISBN of the call before it, which succeeded,
\* with no expiry in between, makes no HTTP request.
C15_BwbServedFromCache ==
    (bwb_last # NoCall /\ bwb_last.repeat) => bwb_last.nfetch = 0

\* C16 as stated: get_betterworldbooks_metadata never raises, whatever the
\* input string and whatever the HTTP request does.
C16_BwbNeverRaises ==
    bwb_last # NoCall => ~bwb_last.raised

\* C14 as stated: concurrent callers with one key never have two
\* invocations of _get_amazon_metadata in flight together, and at most one
\* fetch for the key brings metadata.
C14_NoDuplicateFetch ==
    /\ Cardinality(InFlight) <= 1
    /\ successes <= 1

\* C19: create_edition_from_amazon_metadata restores the session on every
\* exit: once it has switched the connection to ImportBot's token, the
\* connection holds the token saved for the current user ('' for no user)
\* when the call has returned or raised; and without a book the token is
\* never set and load is never called.
C19_SessionRestored ==
    imp # NoCall =>
        /\ (imp.pc \in {"returned", "raised"} /\ imp.switched) =>
              /\ conn_token = imp.auth_token
              /\ imp.auth_token = IF imp.account = NoAccount THEN <<>>
                                  ELSE LoginCode(imp.account)
        /\ (imp.n > 0 /\ ~IsBook(imp.md)) => (~imp.changed /\ imp.loads = 0)

\* load() failed under ImportBot's token for a logged-in user, and the
\* call has raised
C19_Witness ==
    /\ imp # NoCall
    /\ imp.pc = "raised" /\ imp.switched /\ imp.loads = 1
    /\ imp.account # NoAccount

====
